---- MODULE Spec2Model ----
(***************************************************************************)
(* Model of the mikecreighton.com crawler (src/download.py) and of the     *)
(* lookup service over its site map (src/server.py).                       *)
(*                                                                         *)
(* A Python string is a sequence of tokens.  A token is a run of           *)
(* characters that none of the string functions used by the code ever      *)
(* splits: a URL delimiter (":", "/", "?", "#", ";", "[", "]") or a word.  *)
(* The empty string is the empty sequence.                                 *)
(***************************************************************************)
EXTENDS Integers, Sequences, FiniteSets, TLC

VARIABLES
    pc,         \* position of main(): "start", "crawling", "crawled", "saved", "aborted"
    visited,    \* WebsiteCrawler.visited: set of URL paths
    to_visit,   \* WebsiteCrawler.to_visit: list of URL paths
    site_map,   \* WebsiteCrawler.site_map: a dict from identifier to PageInfo
    files,      \* the files on disk, by resolved location
    saved,      \* the file site_map.json: whether it exists, and its text
    reply,      \* outcome of the lookup service's latest get_page_content
    site,       \* the web site: the page behind each path
    log,        \* history: one record per download_page call of this run
    runs,       \* number of crawler runs started
    applied     \* a string function of the crawler applied to a value, again and again

vars == <<pc, visited, to_visit, site_map, files, saved, reply, site, log, runs, applied>>

(***************************************************************************)
(* Bounds of the model.                                                    *)
(***************************************************************************)
MaxLinks == 2   \* hyperlinks on one page
MaxRuns  == 2   \* crawler runs (a crawl and a re-crawl)

(***************************************************************************)
(* Strings.                                                                *)
(***************************************************************************)
StartsWith(s, p) == Len(p) <= Len(s) /\ SubSeq(s, 1, Len(p)) = p

Contains(s, t) == \E i \in 1..Len(s) : s[i] = t

\* str.find(t, from): the first position >= from holding t, or 0
Find(s, t, from) ==
    IF \E i \in from..Len(s) : s[i] = t
    THEN CHOOSE i \in from..Len(s) : s[i] = t /\ \A j \in from..(i - 1) : s[j] # t
    ELSE 0

\* str.rfind(t): the last position holding t, or 0
RFind(s, t) ==
    IF Contains(s, t)
    THEN CHOOSE i \in 1..Len(s) : s[i] = t /\ \A j \in (i + 1)..Len(s) : s[j] # t
    ELSE 0

Drop(s, n) == SubSeq(s, n + 1, Len(s))
Take(s, n) == SubSeq(s, 1, n)

RECURSIVE RStrip(_, _)
RStrip(s, t) == IF s # << >> /\ s[Len(s)] = t THEN RStrip(Take(s, Len(s) - 1), t) ELSE s

RECURSIVE LStrip(_, _)
LStrip(s, t) == IF s # << >> /\ s[1] = t THEN LStrip(Tail(s), t) ELSE s

\* str.split("/"): the segments between the "/" tokens (always at least one)
RECURSIVE Split(_, _)
Split(s, t) ==
    LET i == Find(s, t, 1)
    IN  IF i = 0 THEN << s >> ELSE << Take(s, i - 1) >> \o Split(Drop(s, i), t)

\* "/".join(segments)
RECURSIVE Join(_, _)
Join(segs, t) ==
    IF segs = << >> THEN << >>
    ELSE IF Len(segs) = 1 THEN segs[1]
    ELSE segs[1] \o << t >> \o Join(Tail(segs), t)

(***************************************************************************)
(* urllib.parse, as the crawler uses it (Python 3.11).  A parse that       *)
(* raises ValueError yields ParseError.                                    *)
(***************************************************************************)
Delimiters == {":", "/", "?", "#", ";", "[", "]", "@"}
Whitespace == {" ", "\t", "\n", "\r"}
\* tokens made of scheme_chars (letters, digits, "+", "-", ".") only
SchemeCharsOnly(t) == t \notin Delimiters \cup Whitespace
\* tokens of scheme_chars whose first character is not a letter
DotWords == {".", "..", ".evil.example", ".html", ".md"}
IsAlphaFirst(t) == SchemeCharsOnly(t) /\ t \notin DotWords

uses_relative == { << >>, <<"ftp">>, <<"http">>, <<"gopher">>, <<"nntp">>, <<"imap">>,
                   <<"wais">>, <<"file">>, <<"https">>, <<"shttp">>, <<"mms">>,
                   <<"prospero">>, <<"rtsp">>, <<"sftp">>, <<"svn">>, <<"ws">>, <<"wss">> }
uses_netloc   == uses_relative \cup { <<"telnet">>, <<"snews">>, <<"rsync">>, <<"nfs">>, <<"git">> }
uses_params   == { << >>, <<"ftp">>, <<"hdl">>, <<"prospero">>, <<"http">>, <<"imap">>,
                   <<"https">>, <<"shttp">>, <<"rtsp">>, <<"sip">>, <<"sips">>, <<"mms">>,
                   <<"sftp">>, <<"tel">> }

ParseError == [err |-> TRUE]

RECURSIVE LStripWhitespace(_)
LStripWhitespace(s) ==
    IF s # << >> /\ s[1] \in Whitespace THEN LStripWhitespace(Tail(s)) ELSE s

\* the first "/", "?" or "#" at or after position from, or Len + 1
NetlocEnd(s, from) ==
    LET ends == { i \in from..Len(s) : s[i] \in {"/", "?", "#"} }
    IN  IF ends = {} THEN Len(s) + 1 ELSE CHOOSE i \in ends : \A j \in ends : i <= j

\* the part of s before (after) the first token t; all (none) of s without t
Before(s, t) == LET i == Find(s, t, 1) IN IF i > 0 THEN Take(s, i - 1) ELSE s
After(s, t)  == LET i == Find(s, t, 1) IN IF i > 0 THEN Drop(s, i) ELSE << >>

\* urlsplit, after the scheme and the netloc: the fragment, then the query
SplitQuery(scheme, netloc, url, fragment) ==
    [err |-> FALSE, scheme |-> scheme, netloc |-> netloc, path |-> Before(url, "?"),
     query |-> After(url, "?"), fragment |-> fragment]

SplitFragment(scheme, netloc, url) ==
    IF Contains(netloc, "[") # Contains(netloc, "]")
    THEN ParseError     \* ValueError("Invalid IPv6 URL")
    ELSE SplitQuery(scheme, netloc, Before(url, "#"), After(url, "#"))

SplitNetloc(scheme, url) ==
    IF StartsWith(url, <<"/", "/">>)
    THEN SplitFragment(scheme, SubSeq(url, 3, NetlocEnd(url, 3) - 1),
                       Drop(url, NetlocEnd(url, 3) - 1))
    ELSE SplitFragment(scheme, << >>, url)

SplitScheme(url, default_scheme) ==
    LET i == Find(url, ":", 1)
    IN  IF /\ i > 1
           /\ IsAlphaFirst(url[1])
           /\ \A j \in 1..(i - 1) : SchemeCharsOnly(url[j])
        THEN SplitNetloc(Take(url, i - 1), Drop(url, i))
        ELSE SplitNetloc(default_scheme, url)

urlsplit(url, default_scheme) ==
    SplitScheme(SelectSeq(LStripWhitespace(url), LAMBDA t : t \notin {"\t", "\r", "\n"}),
                default_scheme)

\* _splitparams: the parameters of the last path segment
splitparams(url) ==
    LET i == IF Contains(url, "/") THEN Find(url, ";", RFind(url, "/")) ELSE Find(url, ";", 1)
    IN  IF i = 0 THEN <<url, << >> >> ELSE <<Take(url, i - 1), Drop(url, i)>>

WithParams(s, sp) ==
    [err |-> FALSE, scheme |-> s.scheme, netloc |-> s.netloc, path |-> sp[1],
     params |-> sp[2], query |-> s.query, fragment |-> s.fragment]

ParseSplit(s) ==
    IF s.err THEN ParseError
    ELSE IF s.scheme \in uses_params /\ Contains(s.path, ";")
    THEN WithParams(s, splitparams(s.path))
    ELSE WithParams(s, <<s.path, << >> >>)

urlparse(url, default_scheme) == ParseSplit(urlsplit(url, default_scheme))

\* urlunsplit
urlunsplit(scheme, netloc, url, query, fragment) ==
    (IF scheme # << >> THEN scheme \o <<":">> ELSE << >>)
    \o (IF netloc # << >>
           \/ (scheme # << >> /\ scheme \in uses_netloc /\ ~StartsWith(url, <<"/", "/">>))
        THEN <<"/", "/">> \o netloc
             \o (IF url # << >> /\ url[1] # "/" THEN <<"/">> ELSE << >>)
        ELSE << >>)
    \o url
    \o (IF query # << >> THEN <<"?">> \o query ELSE << >>)
    \o (IF fragment # << >> THEN <<"#">> \o fragment ELSE << >>)

urlunparse(scheme, netloc, path, params, query, fragment) ==
    urlunsplit(scheme, netloc,
               IF params # << >> THEN path \o <<";">> \o params ELSE path,
               query, fragment)

\* the loop of urljoin that resolves "." and ".." segments
RECURSIVE ResolveSegments(_, _)
ResolveSegments(segments, resolved) ==
    IF segments = << >> THEN resolved
    ELSE LET seg == Head(segments)
         IN  IF seg = <<"..">>
             THEN ResolveSegments(Tail(segments),
                                  IF resolved = << >> THEN resolved
                                  ELSE Take(resolved, Len(resolved) - 1))
             ELSE IF seg = <<".">> THEN ResolveSegments(Tail(segments), resolved)
             ELSE ResolveSegments(Tail(segments), Append(resolved, seg))

\* segments[1:-1] = filter(None, segments[1:-1])
FilterInner(segments) ==
    IF Len(segments) <= 2 THEN segments
    ELSE <<segments[1]>>
         \o SelectSeq(SubSeq(segments, 2, Len(segments) - 1), LAMBDA g : g # << >>)
         \o <<segments[Len(segments)]>>

\* urljoin, once the path must be resolved against the base path
JoinSegments(u, netloc, segments, resolved) ==
    [err |-> FALSE,
     url |-> urlunparse(u.scheme, netloc,
                        IF Join(resolved, "/") = << >> THEN <<"/">> ELSE Join(resolved, "/"),
                        u.params, u.query, u.fragment)]

ResolvePath(u, netloc, segments) ==
    JoinSegments(u, netloc, segments,
                 IF segments[Len(segments)] \in {<<".">>, <<"..">>}
                 THEN Append(ResolveSegments(segments, << >>), << >>)
                 ELSE ResolveSegments(segments, << >>))

\* base_parts: the base path's segments without the last one, unless it is empty
BaseParts(parts) == IF parts[Len(parts)] # << >> THEN Take(parts, Len(parts) - 1) ELSE parts

JoinRelative(b, u, netloc) ==
    IF u.path = << >> /\ u.params = << >>
    THEN [err |-> FALSE,
          url |-> urlunparse(u.scheme, netloc, b.path, b.params,
                             IF u.query = << >> THEN b.query ELSE u.query, u.fragment)]
    ELSE IF u.path # << >> /\ u.path[1] = "/"
    THEN ResolvePath(u, netloc, Split(u.path, "/"))
    ELSE ResolvePath(u, netloc,
                     FilterInner(BaseParts(Split(b.path, "/")) \o Split(u.path, "/")))

JoinParsed(url, b, u) ==
    IF u.err THEN ParseError
    ELSE IF u.scheme # b.scheme \/ u.scheme \notin uses_relative
    THEN [err |-> FALSE, url |-> url]
    ELSE IF u.scheme \in uses_netloc /\ u.netloc # << >>
    THEN [err |-> FALSE,
          url |-> urlunparse(u.scheme, u.netloc, u.path, u.params, u.query, u.fragment)]
    ELSE JoinRelative(b, u, IF u.scheme \in uses_netloc THEN b.netloc ELSE u.netloc)

JoinBase(url, b) == IF b.err THEN ParseError ELSE JoinParsed(url, b, urlparse(url, b.scheme))

\* urljoin(base, url): [err |-> FALSE, url |-> the joined URL], or ParseError
urljoin(base, url) ==
    IF base = << >> THEN [err |-> FALSE, url |-> url]
    ELSE IF url = << >> THEN [err |-> FALSE, url |-> base]
    ELSE JoinBase(url, urlparse(base, << >>))

(***************************************************************************)
(* The crawler: WebsiteCrawler of src/download.py.                         *)
(***************************************************************************)
base_url == <<"https", ":", "/", "/", "mikecreighton.com">>
RootPath == <<"/">>
html_dir == <<"html">>
markdown_dir == <<"markdown">>

None == <<"<None>">>        \* Python's None, where a string is expected
NoElement == <<"<absent>">> \* the page has no such element
NoFile == [exists |-> FALSE, readable |-> FALSE, content |-> << >>]  \* no site_map.json
NoReply == [op |-> "none"]
NoCall == [fn |-> "none"]                           \* no function is being applied
EmptyMap == [k \in {} |-> {}]

\* map[key] = value
Put(map, key, value) ==
    [k \in DOMAIN map \cup {key} |-> IF k = key THEN value ELSE map[k]]

\* A Python dict: its keys in insertion order, and the value at each key.
EmptyDict == [keys |-> << >>, at |-> EmptyMap]

\* mutant: a key already there keeps its value
DictPutOnce(dict, key, value) ==
    IF key \in DOMAIN dict.at THEN dict
    ELSE [keys |-> Append(dict.keys, key), at |-> Put(dict.at, key, value)]

\* dict[key] = value: a new key goes last, a key already there keeps its place
DictPut(dict, key, value) ==
    [keys |-> IF key \in DOMAIN dict.at THEN dict.keys ELSE Append(dict.keys, key),
     at   |-> Put(dict.at, key, value)]

(***************************************************************************)
(* JSON: json.dump of the site map and json.load of site_map.json.  The    *)
(* text of the file is a sequence of tokens: the punctuation of JSON, and  *)
(* the characters and words of its strings.  json.dump's indentation is    *)
(* left out of the text: json.load skips whitespace between tokens.        *)
(*                                                                         *)
(* What json.load returns is a Python value that carries its type: a dict  *)
(* (keys in order and the value at each key), a list, a str or None.       *)
(***************************************************************************)
Quote == "\""
Backslash == "\\"
ControlChars == {"\n", "\r", "\t"}

PyDict(keys, at) == [type |-> "dict", keys |-> keys, at |-> at, items |-> << >>, str |-> << >>]
PyList(items)    == [type |-> "list", keys |-> << >>, at |-> EmptyMap, items |-> items, str |-> << >>]
PyStr(str)       == [type |-> "str", keys |-> << >>, at |-> EmptyMap, items |-> << >>, str |-> str]
PyNone           == [type |-> "None", keys |-> << >>, at |-> EmptyMap, items |-> << >>, str |-> << >>]

\* the characters outside ASCII that a text here may hold, and the four hex
\* digits of each
NonAscii == {"U+00E9"}
HexDigits == [c \in NonAscii |-> "00e9"]

\* mutant: a string literal written without escapes
RECURSIVE EscapeNothing(_)
EscapeNothing(str) == IF str = << >> THEN << >> ELSE <<Head(str)>> \o EscapeNothing(Tail(str))

\* py_encode_basestring_ascii: the body of a string literal (ensure_ascii is
\* left at its default, True)
RECURSIVE EscapeString(_)
EscapeString(str) ==
    IF str = << >> THEN << >>
    ELSE (IF Head(str) \in {Quote, Backslash} THEN <<Backslash, Head(str)>>
          ELSE IF Head(str) = "\n" THEN <<Backslash, "n">>
          ELSE IF Head(str) = "\r" THEN <<Backslash, "r">>
          ELSE IF Head(str) = "\t" THEN <<Backslash, "t">>
          ELSE IF Head(str) \in NonAscii THEN <<Backslash, "u", HexDigits[Head(str)]>>
          ELSE <<Head(str)>>) \o EscapeString(Tail(str))

DumpString(str) == <<Quote>> \o EscapeString(str) \o <<Quote>>

\* the members of an object, separated by commas
RECURSIVE DumpMembers(_, _)
DumpMembers(keys, texts) ==
    IF keys = << >> THEN << >>
    ELSE DumpString(Head(keys)) \o <<":">> \o texts[Head(keys)]
         \o (IF Len(keys) > 1 THEN <<",">> ELSE << >>) \o DumpMembers(Tail(keys), texts)

DumpObject(keys, texts) == <<"{">> \o DumpMembers(keys, texts) \o <<"}">>

\* the keys of a PageInfo, in the order crawl() writes them
PageInfoKeys == << <<"base">>, <<"html">>, <<"markdown">>, <<"name">>, <<"description">> >>

DumpPageInfo(info) ==
    DumpObject(PageInfoKeys, [k \in {PageInfoKeys[i] : i \in 1..Len(PageInfoKeys)} |->
                                  DumpString(info[k[1]])])

\* json.dump(self.site_map, f, indent=2)
json_dump(dict) ==
    DumpObject(dict.keys, [k \in DOMAIN dict.at |-> DumpPageInfo(dict.at[k])])

\* The result of parsing a value at a position of the text: the value and the
\* position after it, or the failure that json.load reports as JSONDecodeError.
Parsed(value, next) == [ok |-> TRUE, value |-> value, next |-> next]
ParseFailed == [ok |-> FALSE, value |-> PyNone, next |-> 0]

Unescape(c) == IF c = "n" THEN "\n" ELSE IF c = "r" THEN "\r" ELSE IF c = "t" THEN "\t" ELSE c

\* scanstring: the text from position i, after an opening quote, up to the
\* closing quote
RECURSIVE ScanString(_, _, _)
ScanString(text, i, str) ==
    IF i > Len(text) THEN ParseFailed
    ELSE IF text[i] = Quote THEN Parsed(PyStr(str), i + 1)
    ELSE IF text[i] \in ControlChars THEN ParseFailed
    ELSE IF text[i] # Backslash THEN ScanString(text, i + 1, Append(str, text[i]))
    ELSE IF i + 1 > Len(text) THEN ParseFailed
    ELSE IF text[i + 1] = "u"
    THEN (IF i + 2 <= Len(text) /\ (\E c \in NonAscii : HexDigits[c] = text[i + 2])
          THEN ScanString(text, i + 3,
                          Append(str, CHOOSE c \in NonAscii : HexDigits[c] = text[i + 2]))
          ELSE ParseFailed)
    ELSE IF text[i + 1] \notin {Quote, Backslash, "/", "n", "r", "t"} THEN ParseFailed
    ELSE ScanString(text, i + 2, Append(str, Unescape(text[i + 1])))

RECURSIVE ParseValue(_, _)
RECURSIVE ParseMembers(_, _, _)
RECURSIVE ParseItems(_, _, _)

\* JSONObject, after a member's value
AfterMember(text, key, member, dict) ==
    IF ~member.ok \/ member.next > Len(text) THEN ParseFailed
    ELSE IF text[member.next] = "}"
    THEN Parsed(DictPut(dict, key, member.value), member.next + 1)
    ELSE IF text[member.next] = ","
    THEN ParseMembers(text, member.next + 1, DictPut(dict, key, member.value))
    ELSE ParseFailed

\* JSONObject, after a member's key
AfterKey(text, key, dict) ==
    IF ~key.ok \/ key.next > Len(text) \/ text[key.next] # ":" THEN ParseFailed
    ELSE AfterMember(text, key.value.str, ParseValue(text, key.next + 1), dict)

\* JSONObject: the members after "{" or ","
ParseMembers(text, i, dict) ==
    IF i > Len(text) \/ text[i] # Quote THEN ParseFailed
    ELSE AfterKey(text, ScanString(text, i + 1, << >>), dict)

\* JSONArray, after an item
AfterItem(text, item, items) ==
    IF ~item.ok \/ item.next > Len(text) THEN ParseFailed
    ELSE IF text[item.next] = "]" THEN Parsed(PyList(Append(items, item.value)), item.next + 1)
    ELSE IF text[item.next] = "," THEN ParseItems(text, item.next + 1, Append(items, item.value))
    ELSE ParseFailed

\* JSONArray: the items after "[" or ","
ParseItems(text, i, items) == AfterItem(text, ParseValue(text, i), items)

\* the dict that JSONObject returns
AsPyDict(members) ==
    IF members.ok THEN Parsed(PyDict(members.value.keys, members.value.at), members.next)
    ELSE ParseFailed

\* scan_once: the value at position i of the text
ParseValue(text, i) ==
    IF i > Len(text) THEN ParseFailed
    ELSE IF text[i] = Quote THEN ScanString(text, i + 1, << >>)
    ELSE IF text[i] = "null" THEN Parsed(PyNone, i + 1)
    ELSE IF text[i] = "{"
    THEN (IF i < Len(text) /\ text[i + 1] = "}" THEN Parsed(PyDict(<< >>, EmptyMap), i + 2)
          ELSE AsPyDict(ParseMembers(text, i + 1, EmptyDict)))
    ELSE IF text[i] = "["
    THEN (IF i < Len(text) /\ text[i + 1] = "]" THEN Parsed(PyList(<< >>), i + 2)
          ELSE ParseItems(text, i + 1, << >>))
    ELSE ParseFailed

\* JSONDecoder.decode: a value and nothing after it
Decoded(text, parsed) ==
    IF parsed.ok /\ parsed.next = Len(text) + 1 THEN parsed ELSE ParseFailed

\* json.load(f)
json_load(text) == Decoded(text, ParseValue(text, 1))

NormalizedPath(path) == IF path = << >> THEN <<"index">> ELSE LStrip(path, "/")

get_normalized_path(url) == NormalizedPath(RStrip(urlparse(url, << >>).path, "/"))

\* get_file_paths: (html_path, markdown_path, base_path)
FilePaths(normalized) ==
    [html_path     |-> html_dir \o <<"/">> \o normalized \o <<".html">>,
     markdown_path |-> markdown_dir \o <<"/">> \o normalized \o <<".md">>,
     base_path     |-> normalized]

get_file_paths(url_path) == FilePaths(get_normalized_path(url_path))

\* The file a path string names, as the operating system resolves it from the
\* working directory: the sequence of its directory and file names, with a
\* leading ".." for every step above the working directory.
RECURSIVE OsResolve(_, _)
OsResolve(segments, stack) ==
    IF segments = << >> THEN stack
    ELSE LET seg == Head(segments)
         IN  IF seg = << >> \/ seg = <<".">> THEN OsResolve(Tail(segments), stack)
             ELSE IF seg = <<"..">> /\ stack # << >> /\ stack[Len(stack)] # <<"..">>
             THEN OsResolve(Tail(segments), Take(stack, Len(stack) - 1))
             ELSE OsResolve(Tail(segments), Append(stack, seg))

FileLoc(path) == OsResolve(Split(path, "/"), << >>)

InDirectory(loc, directory) == Len(loc) > 1 /\ loc[1] = directory

\* _clear_directory(directory): every file under the directory is removed
clear_directory(fs, directory) ==
    [loc \in { l \in DOMAIN fs : ~InDirectory(l, directory) } |-> fs[loc]]

\* clean_text
RECURSIVE CollapseWhitespace(_)
CollapseWhitespace(text) ==
    IF text = << >> THEN << >>
    ELSE IF Head(text) \in Whitespace
    THEN <<" ">> \o CollapseWhitespace(LStripWhitespace(text))
    ELSE <<Head(text)>> \o CollapseWhitespace(Tail(text))

\* mutant: trailing whitespace is kept
RStripNothing(s) == s

RECURSIVE RStripWhitespace(_)
RStripWhitespace(s) ==
    IF s # << >> /\ s[Len(s)] \in Whitespace
    THEN RStripWhitespace(Take(s, Len(s) - 1)) ELSE s

clean_text(text) ==
    IF text = None \/ text = << >> THEN << >>
    ELSE LET t1 == [i \in 1..Len(text) |-> IF text[i] \in {"\r", "\n"} THEN " " ELSE text[i]]
         IN  RStripWhitespace(LStripWhitespace(CollapseWhitespace(t1)))

\* extract_page_info: page.title is the title element's string (None when the
\* element holds no single string), page.description the content of the
\* description meta tag; either is NoElement when the page has no such element
extract_page_info(page) ==
    [title |-> clean_text(IF page.title # NoElement THEN page.title
                          ELSE <<"No", " ", "Title">>),
     description |-> clean_text(IF page.description # NoElement THEN page.description
                                ELSE << >>)]

\* extract_links, lines 193-199: what one hyperlink's href resolves to.
\* keep says that the link passed the same-domain test.
RelativePath(parsed) ==
    IF parsed.err THEN ParseError
    ELSE [err |-> FALSE, keep |-> TRUE, path |-> parsed.path]

SameDomain(absolute_url) ==
    IF absolute_url.err THEN ParseError
    ELSE IF StartsWith(absolute_url.url, base_url)
    THEN RelativePath(urlparse(absolute_url.url, << >>))
    ELSE [err |-> FALSE, keep |-> FALSE, path |-> << >>]

ResolveHref(href) == SameDomain(urljoin(base_url, href))

\* mutant: the markdown path is recorded whatever the conversion did
PageInfoAlwaysMarkdown(base_path, info, markdown_success) ==
    [base        |-> base_path,
     html        |-> <<".", "/", "html", "/">> \o base_path \o <<".html">>,
     markdown    |-> <<".", "/", "markdown", "/">> \o base_path \o <<".md">>,
     name        |-> info.title,
     description |-> info.description]

\* the PageInfo that crawl stores for a processed page
PageInfo(base_path, info, markdown_success) ==
    [base        |-> base_path,
     html        |-> <<".", "/", "html", "/">> \o base_path \o <<".html">>,
     markdown    |-> IF markdown_success
                     THEN <<".", "/", "markdown", "/">> \o base_path \o <<".md">>
                     ELSE << >>,
     name        |-> info.title,
     description |-> info.description]

(***************************************************************************)
(* The web site being crawled: what the pages served to download_page may  *)
(* hold.  A live site may answer any request with any page; a fixed site   *)
(* answers a path with its page and any other path with a 404.             *)
(***************************************************************************)
Hrefs ==
    { <<"/", "about">>,
      <<"/", "about", "/">>,
      <<"https", ":", "/", "/", "other.example.com", "/", "y">>,
      <<"https", ":", "/", "/", "mikecreighton.com", ".evil.example", "/", "x">>,
      <<"https", ":", "/", "/", "mikecreighton.com", "/", "..", "/", "..", "/", "x">>,
      <<"/", "/", "[", "x">> }

PageHeads ==
    { [title |-> <<"\n", "About", " ", " ", "Me", " ">>, description |-> NoElement] }

\* the hrefs of the pages of a fixed site
SiteHrefs == { <<"/">>, <<"/", "about">>, <<"/", "about", "/">> }

\* the hrefs of the pages of the four-page site
FourPageHrefs == { <<"/", "about">>, <<"/", "about", "/">>, <<"/", "work">> }

LinkLists(hrefs) == UNION { [1..n -> hrefs] : n \in 0..MaxLinks }

Pages == { [title |-> h.title, description |-> h.description, links |-> l] :
           h \in PageHeads, l \in LinkLists(Hrefs) }

\* ResolveHref of every href a page of the model may hold
Resolved == [h \in Hrefs \cup SiteHrefs \cup FourPageHrefs |-> ResolveHref(h)]

\* the paths that crawl may take from the queue
QueuePaths ==
    {RootPath} \cup { Resolved[h].path : h \in { x \in DOMAIN Resolved : ~Resolved[x].err } }

\* download_page: url = urljoin(self.base_url, path), for each of these paths
DownloadUrl == [path \in QueuePaths |-> urljoin(base_url, path)]

\* extract_links: the loop over the page's hyperlinks, in document order
RECURSIVE ExtractLoop(_, _, _, _)
ExtractLoop(hrefs, links, vis, tv) ==
    IF hrefs = << >> THEN [err |-> FALSE, links |-> links]
    ELSE LET link == Resolved[Head(hrefs)]
         IN  IF link.err THEN ParseError
             ELSE IF /\ link.keep
                     /\ link.path # << >>
                     /\ link.path \notin vis
                     /\ \A i \in 1..Len(tv) : tv[i] # link.path
             THEN ExtractLoop(Tail(hrefs), Append(links, link.path), vis, tv)
             ELSE ExtractLoop(Tail(hrefs), links, vis, tv)

\* mutant: extract_links returns after the first hyperlink
extract_links_first_only(hrefs, vis, tv) ==
    ExtractLoop(IF hrefs = << >> THEN hrefs ELSE <<Head(hrefs)>>, << >>, vis, tv)

\* mutant: extract_links without the test against visited
extract_links_ignoring_visited(hrefs, vis, tv) == ExtractLoop(hrefs, << >>, {}, tv)

extract_links(hrefs, vis, tv) == ExtractLoop(hrefs, << >>, vis, tv)

LiveSite == [live |-> TRUE, pages |-> EmptyMap]

\* the fixed sites: the root page alone, or with "/about", or with "/about/" too
SiteNodeSets ==
    { {RootPath},
      {RootPath, <<"/", "about">>},
      {RootPath, <<"/", "about">>, <<"/", "about", "/">>} }

SitePages == { [title |-> h.title, description |-> h.description, links |-> l] :
               h \in PageHeads, l \in LinkLists(SiteHrefs) }

Sites(nodeSets) ==
    { [live |-> FALSE, pages |-> pages] : pages \in UNION { [D -> SitePages] : D \in nodeSets } }

Serves(path) ==
    IF site.live THEN Pages
    ELSE IF path \in DOMAIN site.pages THEN {site.pages[path]} ELSE {}

(***************************************************************************)
(* main() of src/download.py: construct, crawl, save.                      *)
(***************************************************************************)
\* WebsiteCrawler.__init__
Construct ==
    /\ pc \in {"start", "saved", "aborted"}
    /\ runs < MaxRuns
    /\ runs' = runs + 1
    /\ visited' = {}
    /\ to_visit' = <<RootPath>>
    /\ site_map' = EmptyDict
    /\ files' = clear_directory(clear_directory(files, html_dir), markdown_dir)
    /\ log' = << >>
    /\ pc' = "crawling"
    /\ UNCHANGED <<saved, reply, site, applied>>

\* The state main() is in once it has constructed the crawler in a fresh
\* working directory, the site being live.
Init ==
    /\ pc = "crawling"
    /\ visited = {}
    /\ to_visit = <<RootPath>>
    /\ site_map = EmptyDict
    /\ files = EmptyMap
    /\ saved = NoFile
    /\ reply = NoReply
    /\ site = LiveSite
    /\ log = << >>
    /\ runs = 1
    /\ applied = NoCall

\* response.text, as far as the files keep it
HtmlText(page) == IF page.title \in {NoElement, None} THEN << >> ELSE page.title
\* the text MarkItDown makes of the page
Markdown(page) == clean_text(HtmlText(page))

\* mutant: the current path is not recorded as visited
MarkVisitedNot(vis, current_path) == vis

\* visited.add(current_path)
MarkVisited(vis, current_path) == vis \cup {current_path}

\* mutant: a failed path is put back on the queue
FetchFailedRetried(current_path) ==
    /\ to_visit' = Append(Tail(to_visit), current_path)
    /\ log' = Append(log, [path |-> current_path, ok |-> FALSE, md |-> FALSE])
    /\ UNCHANGED <<pc, site_map, files>>

\* mutant: a failed fetch leaves an entry in the site map
FetchFailedStored(current_path) ==
    /\ to_visit' = Tail(to_visit)
    /\ log' = Append(log, [path |-> current_path, ok |-> FALSE, md |-> FALSE])
    /\ site_map' = DictPut(site_map, get_normalized_path(current_path),
                           PageInfo(get_normalized_path(current_path),
                                    [title |-> << >>, description |-> << >>], FALSE))
    /\ UNCHANGED <<pc, files>>

\* The rest of an iteration of crawl() whose download_page returned None:
\* the request, the status check or the writing of the html file failed.
FetchFailed(current_path) ==
    /\ to_visit' = Tail(to_visit)
    /\ log' = Append(log, [path |-> current_path, ok |-> FALSE, md |-> FALSE])
    /\ UNCHANGED <<pc, site_map, files>>

\* The rest of an iteration of crawl() whose download_page raised: urljoin is
\* called before the try block.
DownloadRaised ==
    /\ pc' = "aborted"
    /\ to_visit' = Tail(to_visit)
    /\ UNCHANGED <<site_map, files, log>>

\* mutant: the new links are put in front of the queue
EnqueueLinksInFront(new_links) ==
    IF new_links.err
    THEN /\ pc' = "aborted"
         /\ to_visit' = Tail(to_visit)
    ELSE /\ pc' = pc
         /\ to_visit' = new_links.links \o Tail(to_visit)

\* to_visit.extend(new_links), or the exception extract_links raised
EnqueueLinks(new_links) ==
    IF new_links.err
    THEN /\ pc' = "aborted"
         /\ to_visit' = Tail(to_visit)
    ELSE /\ pc' = pc
         /\ to_visit' = Tail(to_visit) \o new_links.links

\* convert_to_markdown: the markdown file is written when the conversion succeeds
ConvertToMarkdown(fs, markdown_path, page, markdown_success) ==
    IF markdown_success THEN Put(fs, FileLoc(markdown_path), Markdown(page)) ELSE fs

\* The rest of an iteration of crawl() whose download_page succeeded with
\* `page`; markdown_success is the result of convert_to_markdown.
ProcessPage(current_path, page, paths, markdown_success) ==
    /\ files' = ConvertToMarkdown(Put(files, FileLoc(paths.html_path), HtmlText(page)),
                                  paths.markdown_path, page, markdown_success)
    /\ site_map' = DictPut(site_map, paths.base_path,
                       PageInfo(paths.base_path, extract_page_info(page), markdown_success))
    /\ log' = Append(log, [path |-> current_path, ok |-> TRUE, md |-> markdown_success])
    /\ EnqueueLinks(extract_links(page.links, visited', Tail(to_visit)))

\* One iteration of the while loop of crawl()
Crawl ==
    /\ pc = "crawling"
    /\ to_visit # << >>
    /\ IF Head(to_visit) \in visited
       THEN /\ to_visit' = Tail(to_visit)
            /\ UNCHANGED <<pc, visited, site_map, files, log>>
       ELSE /\ visited' = MarkVisited(visited, Head(to_visit))
            /\ IF DownloadUrl[Head(to_visit)].err
               THEN DownloadRaised
               ELSE \/ FetchFailed(Head(to_visit))
                    \/ \E page \in Serves(Head(to_visit)), markdown_success \in BOOLEAN :
                           ProcessPage(Head(to_visit), page,
                                       get_file_paths(Head(to_visit)), markdown_success)
    /\ UNCHANGED <<saved, reply, site, runs, applied>>

\* crawl() leaves its loop and returns the site map
CrawlReturn ==
    /\ pc = "crawling"
    /\ to_visit = << >>
    /\ pc' = "crawled"
    /\ UNCHANGED <<visited, to_visit, site_map, files, saved, reply, site, log, runs, applied>>

\* save_site_map
save_site_map ==
    /\ pc = "crawled"
    /\ saved' = [exists |-> TRUE, readable |-> TRUE, content |-> json_dump(site_map)]
    /\ pc' = "saved"
    /\ UNCHANGED <<visited, to_visit, site_map, files, reply, site, log, runs, applied>>

(***************************************************************************)
(* The lookup service: src/server.py.                                      *)
(***************************************************************************)
\* what a call returns, or the exception it raises
Returned(value) == [raised |-> "", value |-> value]
Raised(exception) == [raised |-> exception, value |-> PyNone]

\* load_site_map, given what json.load makes of the file's text: an empty dict
\* for JSONDecodeError
LoadResult(parsed) ==
    IF parsed.ok THEN Returned(parsed.value) ELSE Returned(PyDict(<< >>, EmptyMap))

\* load_site_map: an empty dict for FileNotFoundError; any other error of
\* open() is not caught
load_site_map ==
    IF ~saved.exists THEN Returned(PyDict(<< >>, EmptyMap))
    ELSE IF ~saved.readable THEN Raised("PermissionError")
    ELSE LoadResult(json_load(saved.content))

\* read_file: the file's text, or None
read_file(file_path) ==
    LET p   == IF StartsWith(file_path, <<".", "/">>) THEN Drop(file_path, 2) ELSE file_path
        loc == FileLoc(p)
    IN  IF loc \in DOMAIN files THEN files[loc] ELSE None

\* dict.get(key, ""), of an entry of the site map
Get(dict, key) == IF key \in DOMAIN dict.at THEN dict.at[key] ELSE PyStr(<< >>)

\* `not value`
Falsy(value) ==
    \/ value.type = "None"
    \/ value.type = "str" /\ value.str = << >>
    \/ value.type = "dict" /\ value.keys = << >>
    \/ value.type = "list" /\ value.items = << >>

\* mutant: the strings are compared as they are
LowerNot(str) == str

\* s.lower()
UpperCase == {"A", "B", "About", "Me", "No", "Title"}
LowerChar(c) ==
    IF c \notin UpperCase THEN c
    ELSE IF c = "A" THEN "a" ELSE IF c = "B" THEN "b" ELSE IF c = "About" THEN "about"
    ELSE IF c = "Me" THEN "me" ELSE IF c = "No" THEN "no" ELSE "title"
Lower(str) == [i \in 1..Len(str) |-> LowerChar(str[i])]

\* sub in str
IsSubstring(sub, str) ==
    \E i \in 0..(Len(str) - Len(sub)) : SubSeq(str, i + 1, i + Len(sub)) = sub

\* a page of the loaded site map is a record whose html file exists, and so
\* does its markdown file if it names one
PageOnDisk(info) ==
    info.type = "dict" =>
        /\ Get(info, <<"html">>).type = "str" => read_file(Get(info, <<"html">>).str) # None
        /\ (Get(info, <<"markdown">>).type = "str" /\ ~Falsy(Get(info, <<"markdown">>)))
               => read_file(Get(info, <<"markdown">>).str) # None

\* the loaded site map is consistent with the files on disk
ConsistentWithDisk(loaded) ==
    (loaded.raised = "" /\ loaded.value.type = "dict") =>
        \A id \in DOMAIN loaded.value.at : PageOnDisk(loaded.value.at[id])

\* what a lookup operation answered
Reply(op, arg, result, loaded) ==
    [op |-> op, arg |-> arg, raised |-> result.raised, value |-> result.value,
     consistent |-> ConsistentWithDisk(loaded)]

PageIds == { <<"index">>, <<"about">>, <<"nonexistent">> }

\* mutant: a page whose markdown file is empty is reported as unreadable
ContentOrErrorWhenEmpty(content) ==
    IF content = None \/ content = << >> THEN Raised("ValueError") ELSE Returned(PyStr(content))

\* get_page_content, lines 80-84: content = read_file(markdown_path)
ContentOrError(content) ==
    IF content = None THEN Raised("ValueError") ELSE Returned(PyStr(content))

\* get_page_content, lines 76-84, for the entry of the page
PageContent(info) ==
    IF info.type # "dict" THEN Raised("AttributeError")
    ELSE IF Falsy(Get(info, <<"markdown">>)) THEN Raised("ValueError")
    ELSE IF Get(info, <<"markdown">>).type # "str" THEN Raised("AttributeError")
    ELSE ContentOrError(read_file(Get(info, <<"markdown">>).str))

\* get_page_content, lines 73-84, for the loaded site map
ContentIn(page_id, map) ==
    IF map.type = "dict"
    THEN (IF page_id \notin DOMAIN map.at THEN Raised("ValueError")
          ELSE PageContent(map.at[page_id]))
    ELSE IF map.type = "list"
    THEN (IF \E i \in 1..Len(map.items) : map.items[i] = PyStr(page_id)
          THEN Raised("TypeError") ELSE Raised("ValueError"))
    ELSE IF map.type = "str"
    THEN (IF IsSubstring(page_id, map.str) THEN Raised("TypeError") ELSE Raised("ValueError"))
    ELSE Raised("TypeError")

GetPageContent(page_id, loaded) ==
    IF loaded.raised # "" THEN loaded ELSE ContentIn(page_id, loaded.value)

GetPageContentReply(page_id, loaded) ==
    Reply("get_page_content", page_id, GetPageContent(page_id, loaded), loaded)

get_page_content(page_id) ==
    /\ reply' = GetPageContentReply(page_id, load_site_map)
    /\ UNCHANGED <<pc, visited, to_visit, site_map, files, saved, site, log, runs, applied>>

Lookup == \E page_id \in PageIds : get_page_content(page_id)

\* list_pages: one row for each item of the site map, in its order
RECURSIVE ListRows(_, _, _)
ListRows(keys, map, rows) ==
    IF keys = << >> THEN Returned(PyList(rows))
    ELSE IF map.at[Head(keys)].type # "dict" THEN Raised("AttributeError")
    ELSE ListRows(Tail(keys), map,
                  Append(rows, [page_id     |-> Head(keys),
                                title       |-> Get(map.at[Head(keys)], <<"name">>),
                                description |-> Get(map.at[Head(keys)], <<"description">>)]))

ListPages(loaded) ==
    IF loaded.raised # "" THEN loaded
    ELSE IF loaded.value.type # "dict" THEN Raised("AttributeError")
    ELSE ListRows(loaded.value.keys, loaded.value, << >>)

ListPagesReply(loaded) == Reply("list_pages", << >>, ListPages(loaded), loaded)

list_pages ==
    /\ reply' = ListPagesReply(load_site_map)
    /\ UNCHANGED <<pc, visited, to_visit, site_map, files, saved, site, log, runs, applied>>

\* search_pages, lines 134-142: the row of a matching page
Match(page_id, info, query) ==
    [page_id     |-> page_id,
     title       |-> Get(info, <<"name">>),
     description |-> Get(info, <<"description">>),
     relevance   |-> IF IsSubstring(query, Lower(Get(info, <<"name">>).str))
                     THEN "high" ELSE "medium"]

\* search_pages, lines 130-142: the loop over the items of the site map
RECURSIVE SearchRows(_, _, _, _)
SearchRows(keys, map, query, results) ==
    IF keys = << >> THEN Returned(PyList(results))
    ELSE IF map.at[Head(keys)].type # "dict" THEN Raised("AttributeError")
    ELSE IF \/ Get(map.at[Head(keys)], <<"name">>).type # "str"
            \/ Get(map.at[Head(keys)], <<"description">>).type # "str"
    THEN Raised("AttributeError")
    ELSE IF \/ IsSubstring(query, Lower(Get(map.at[Head(keys)], <<"name">>).str))
            \/ IsSubstring(query, Lower(Get(map.at[Head(keys)], <<"description">>).str))
    THEN SearchRows(Tail(keys), map, query,
                    Append(results, Match(Head(keys), map.at[Head(keys)], query)))
    ELSE SearchRows(Tail(keys), map, query, results)

\* the sort key of a result: 0 if x["relevance"] == "high" else 1
SortKey(row) == IF row.relevance = "high" THEN 0 ELSE 1

\* list.sort(key=...): a stable sort, here by insertion from the left
RECURSIVE InsertByKey(_, _)
InsertByKey(sorted, row) ==
    IF sorted = << >> THEN <<row>>
    ELSE IF SortKey(sorted[Len(sorted)]) <= SortKey(row) THEN Append(sorted, row)
    ELSE Append(InsertByKey(Take(sorted, Len(sorted) - 1), row), sorted[Len(sorted)])

RECURSIVE SortByKey(_, _)
SortByKey(rows, sorted) ==
    IF rows = << >> THEN sorted ELSE SortByKey(Tail(rows), InsertByKey(sorted, Head(rows)))

\* mutant: the results are returned in the order of the site map
SortedNot(found) == found

\* search_pages, lines 144-147: results.sort(...); return results
Sorted(found) ==
    IF found.raised # "" THEN found ELSE Returned(PyList(SortByKey(found.value.items, << >>)))

SearchPages(query, loaded) ==
    IF loaded.raised # "" THEN loaded
    ELSE IF loaded.value.type # "dict" THEN Raised("AttributeError")
    ELSE Sorted(SearchRows(loaded.value.keys, loaded.value, Lower(query), << >>))

SearchPagesReply(query, loaded) ==
    Reply("search_pages", query, SearchPages(query, loaded), loaded)

search_pages(query) ==
    /\ reply' = SearchPagesReply(query, load_site_map)
    /\ UNCHANGED <<pc, visited, to_visit, site_map, files, saved, site, log, runs, applied>>

\* one run of main() after the construction
Next == Crawl \/ CrawlReturn \/ save_site_map

Spec == Init /\ [][Next]_vars

\* The same run against a fixed site.  crawl() is sequential code whose every
\* iteration ends (the request has a timeout), so the run keeps taking steps.
InitSite ==
    /\ pc = "crawling"
    /\ visited = {}
    /\ to_visit = <<RootPath>>
    /\ site_map = EmptyDict
    /\ files = EmptyMap
    /\ saved = NoFile
    /\ reply = NoReply
    /\ site \in Sites(SiteNodeSets)
    /\ log = << >>
    /\ runs = 1
    /\ applied = NoCall

SiteSpec == InitSite /\ [][Next]_vars /\ WF_vars(Next)

\* The crawl of a fixed site of four pages: the root, "/about" and "/about/",
\* which share the identifier "about" and differ in title and description,
\* and the leaf "/work".
Page(title, description, links) == [title |-> title, description |-> description, links |-> links]

FourPageSites ==
    { [live |-> FALSE,
       pages |-> Put(Put(Put(Put(EmptyMap,
                  RootPath, Page(<<"Home">>, NoElement, root)),
                  <<"/", "about">>, Page(<<"\n", "About", " ", " ", "Me", " ">>, NoElement, about)),
                  <<"/", "about", "/">>, Page(<<"About">>, <<"Me", "\n">>, about_slash)),
                  <<"/", "work">>, Page(NoElement, <<"Work">>, << >>))] :
      root \in LinkLists(FourPageHrefs), about \in LinkLists(FourPageHrefs),
      about_slash \in LinkLists(FourPageHrefs) }

InitFourPage ==
    /\ pc = "crawling"
    /\ visited = {}
    /\ to_visit = <<RootPath>>
    /\ site_map = EmptyDict
    /\ files = EmptyMap
    /\ saved = NoFile
    /\ reply = NoReply
    /\ site \in FourPageSites
    /\ log = << >>
    /\ runs = 1
    /\ applied = NoCall

FourPageSpec == InitFourPage /\ [][Next]_vars

\* The crawler run and run again in a working directory, next to the lookup
\* service answering queries.
InitServe ==
    /\ pc = "start"
    /\ visited = {}
    /\ to_visit = << >>
    /\ site_map = EmptyDict
    /\ files = EmptyMap
    /\ saved = NoFile
    /\ reply = NoReply
    /\ site \in Sites({ D \in SiteNodeSets : Cardinality(D) <= 2 })
    /\ log = << >>
    /\ runs = 0
    /\ applied = NoCall

NextServe == Construct \/ Crawl \/ CrawlReturn \/ save_site_map \/ Lookup

ServeSpec == InitServe /\ [][NextServe]_vars

(***************************************************************************)
(* The lookup service on its own, over a working directory as it may find  *)
(* it: site_map.json missing, unreadable, holding text that is not a site  *)
(* map, or holding the site map of up to MaxPages pages.                   *)
(***************************************************************************)
MaxPages == 3    \* pages of the site map a search runs over

SearchIds == << <<"index">>, <<"about">>, <<"contact">>, <<"work">> >>
SearchNames == { <<"A", "b">>, <<"b">> }
SearchDescriptions == { << >>, <<"a">> }
Queries == { << >>, <<"a">>, <<"B">>, <<"a", "B">>, <<"b", "a">> }

\* the PageInfo records a site map may hold for an identifier
PageInfos(id) ==
    { [base |-> id, html |-> <<".", "/", "html", "/">> \o id \o <<".html">>,
       markdown |-> markdown, name |-> name, description |-> description] :
      markdown \in { << >>, <<".", "/", "markdown", "/">> \o id \o <<".md">> },
      name \in SearchNames, description \in SearchDescriptions }

\* the site maps of the first n identifiers, in their order
SiteMapsOf(n) ==
    { [keys |-> SubSeq(SearchIds, 1, n), at |-> at] :
      at \in { f \in [{SearchIds[i] : i \in 1..n} -> UNION { PageInfos(SearchIds[i]) : i \in 1..n }] :
                   \A i \in 1..n : f[SearchIds[i]] \in PageInfos(SearchIds[i]) } }

SiteMaps == UNION { SiteMapsOf(n) : n \in 0..MaxPages }

\* texts of a site_map.json that is not a site map: an empty file, a cut-off
\* file, text after the object, a list, null, a string, and objects whose
\* values are no page records
OtherTexts ==
    { << >>,
      <<"{">>,
      <<"{", "}", "{">>,
      <<"[", "]">>,
      <<"null">>,
      <<Quote, "index", Quote>>,
      <<"[", Quote, "index", Quote, "]">>,
      <<"{", Quote, "index", Quote, ":", Quote, "x", Quote, "}">>,
      <<"{", Quote, "index", Quote, ":", "null", "}">> }

SiteMapFiles ==
    { NoFile, [exists |-> TRUE, readable |-> FALSE, content |-> << >>] }
    \cup { [exists |-> TRUE, readable |-> TRUE, content |-> text] :
           text \in OtherTexts \cup { json_dump(dict) : dict \in SiteMaps } }

\* the markdown file of the index page: missing, empty, or holding text
MarkdownFiles ==
    { EmptyMap,
      Put(EmptyMap, FileLoc(<<"markdown", "/", "index", ".md">>), << >>),
      Put(EmptyMap, FileLoc(<<"markdown", "/", "index", ".md">>), <<"About", " ", "Me">>) }

InitLookup ==
    /\ pc = "start"
    /\ visited = {}
    /\ to_visit = << >>
    /\ site_map = EmptyDict
    /\ files \in MarkdownFiles
    /\ saved \in SiteMapFiles
    /\ reply = NoReply
    /\ site = LiveSite
    /\ log = << >>
    /\ runs = 0
    /\ applied = NoCall

Search == \E query \in Queries : search_pages(query)

NextLookup == Lookup \/ list_pages \/ Search

LookupSpec == InitLookup /\ [][NextLookup]_vars

(***************************************************************************)
(* Saving a site map and loading it again: save_site_map of the crawler    *)
(* on a site map it may hold, then load_site_map of the lookup service.    *)
(***************************************************************************)
MaxEntries == 2    \* entries of the site map that is saved

RoundTripIds == << <<"index">>, <<"a", Quote>>, <<Backslash, "U+00E9">> >>
RoundTripNames ==
    { << >>, <<"a", Quote>>, <<Backslash, "n">>, <<"\n", "\t", "\r">>, <<"U+00E9", "/">>,
      <<"{", Quote, ":", "null", "}">> }
RoundTripDescriptions == { << >>, <<Backslash, Quote, ",">>, <<Backslash, "u", "00e9">> }

\* PageInfo records as crawl() builds them, for any name and description
RoundTripInfos(id) ==
    { PageInfo(id, [title |-> name, description |-> description], markdown_success) :
      name \in RoundTripNames, description \in RoundTripDescriptions,
      markdown_success \in BOOLEAN }

\* the sequences of up to n distinct identifiers
KeyOrders(n) ==
    { keys \in UNION { [1..k -> {RoundTripIds[i] : i \in 1..Len(RoundTripIds)}] : k \in 0..n } :
        \A i, j \in 1..Len(keys) : i # j => keys[i] # keys[j] }

InfosOf(keys) ==
    { at \in [{keys[i] : i \in 1..Len(keys)} ->
                  UNION { RoundTripInfos(keys[i]) : i \in 1..Len(keys) }] :
        \A i \in 1..Len(keys) : at[keys[i]] \in RoundTripInfos(keys[i]) }

RoundTripMaps ==
    UNION { { [keys |-> keys, at |-> at] : at \in InfosOf(keys) } : keys \in KeyOrders(MaxEntries) }

InitRoundTrip ==
    /\ pc = "crawled"
    /\ visited = {}
    /\ to_visit = << >>
    /\ site_map \in RoundTripMaps
    /\ files = EmptyMap
    /\ saved = NoFile
    /\ reply = NoReply
    /\ site = LiveSite
    /\ log = << >>
    /\ runs = 1
    /\ applied = NoCall

\* a tool of the lookup service calls load_site_map() on the file main() saved
LoadSiteMap ==
    /\ pc = "saved"
    /\ reply' = Reply("load_site_map", << >>, load_site_map, load_site_map)
    /\ UNCHANGED <<pc, visited, to_visit, site_map, files, saved, site, log, runs, applied>>

NextRoundTrip == save_site_map \/ LoadSiteMap

RoundTripSpec == InitRoundTrip /\ [][NextRoundTrip]_vars

(***************************************************************************)
(* The string functions of the crawler on their own: get_normalized_path   *)
(* and clean_text, applied to a string and then to their own result.       *)
(***************************************************************************)
MaxTokens == 4     \* length of the string the function is first applied to
MaxApplied == 2    \* applications of the function

Strings(alphabet) == UNION { [1..n -> alphabet] : n \in 0..MaxTokens }

\* the characters of the URLs and of the texts
UrlTokens == {"/", ":", "?", "a"}
TextTokens == {" ", "\t", "\n", "\r", "a"}

Call(fn, arg) == [fn |-> fn, arg |-> arg, value |-> arg, times |-> 0]

InitFunction ==
    /\ pc = "start"
    /\ visited = {}
    /\ to_visit = << >>
    /\ site_map = EmptyDict
    /\ files = EmptyMap
    /\ saved = NoFile
    /\ reply = NoReply
    /\ site = LiveSite
    /\ log = << >>
    /\ runs = 0
    /\ applied \in { Call("get_normalized_path", url) : url \in Strings(UrlTokens) }
                     \cup { Call("clean_text", text) : text \in Strings(TextTokens) }

\* value = get_normalized_path(value)
ApplyNormalizedPath ==
    /\ applied.fn = "get_normalized_path"
    /\ applied.times < MaxApplied
    /\ applied' = [applied EXCEPT !.arg = applied.value,
                                  !.value = get_normalized_path(applied.value),
                                  !.times = @ + 1]
    /\ UNCHANGED <<pc, visited, to_visit, site_map, files, saved, reply, site, log, runs>>

\* value = clean_text(value)
ApplyCleanText ==
    /\ applied.fn = "clean_text"
    /\ applied.times < MaxApplied
    /\ applied' = [applied EXCEPT !.arg = applied.value,
                                  !.value = clean_text(applied.value),
                                  !.times = @ + 1]
    /\ UNCHANGED <<pc, visited, to_visit, site_map, files, saved, reply, site, log, runs>>

NextFunction == ApplyNormalizedPath \/ ApplyCleanText

FunctionSpec == InitFunction /\ [][NextFunction]_vars

(***************************************************************************)
(* Properties of the crawl.                                                *)
(***************************************************************************)
\* the paths passed to download_page so far, in order
Fetched == { log[i].path : i \in 1..Len(log) }
InQueue(q) == { q[i] : i \in 1..Len(q) }
\* the paths a step has appended to the tail of to_visit
Appended == { to_visit'[k] : k \in Len(to_visit)..Len(to_visit') }
\* a step that called download_page
FetchStep == Len(log') = Len(log) + 1
LastFetch == log'[Len(log')]

\* C1: a path is passed to download_page only as the head that the step pops
\* from to_visit and adds to visited, having not been in visited before; every
\* fetched path stays in visited; and no step appends to to_visit a path that
\* is in visited.
C1_FetchAfterVisitedNeverAgain ==
    /\ [](Fetched \subseteq visited)
    /\ [][/\ FetchStep => /\ LastFetch.path = Head(to_visit)
                          /\ to_visit # << >>
                          /\ LastFetch.path \notin visited
                          /\ LastFetch.path \in visited'
                          /\ LastFetch.path \notin Fetched
          /\ visited \subseteq visited'
          /\ pc = "crawling" /\ to_visit # << >> /\ Len(to_visit') >= Len(to_visit)
                 => Appended \cap visited' = {}]_vars

\* C1 witness: two paths have been popped, marked visited and passed to
\* download_page, a page was processed and the queue holds further paths
C1_Witness ==
    /\ Len(log) >= 2
    /\ to_visit # << >>
    /\ \E i \in 1..Len(log) : log[i].ok

C3_NoDuplicateInQueue ==
    \A i, j \in 1..Len(to_visit) : i # j => to_visit[i] # to_visit[j]

C6_NoFatalError == pc # "aborted"

\* the scheme and host of the URL an href resolves to
Origin(parsed) == IF parsed.err THEN << >> ELSE <<parsed.scheme, parsed.netloc>>
HrefOrigin(joined) == IF joined.err THEN << >> ELSE Origin(urlparse(joined.url, << >>))
\* the paths of the hrefs whose origin is the origin of base_url
SameOriginPaths ==
    { Resolved[h].path : h \in { g \in Hrefs \cup SiteHrefs :
          HrefOrigin(urljoin(base_url, g)) = Origin(urlparse(base_url, << >>)) } }

\* C7 as stated: every path enqueued or fetched is the root path or the path
\* of a link whose origin is exactly the base origin
C7_SameOriginOnly ==
    (InQueue(to_visit) \cup visited) \subseteq (SameOriginPaths \cup {RootPath})

\* C8 as stated: every file written lies in the html or the markdown directory,
\* and no site map key has a ".." segment
C8_FilesInsideOutputDirs ==
    /\ \A loc \in DOMAIN files :
           InDirectory(loc, html_dir) \/ InDirectory(loc, markdown_dir)
    /\ \A id \in DOMAIN site_map.at : \A seg \in InQueue(Split(id, "/")) : seg # <<"..">>

\* the latest successful download stored under an identifier
Writes(id) == { i \in 1..Len(log) : log[i].ok /\ get_normalized_path(log[i].path) = id }
LastWrite(id) == CHOOSE i \in Writes(id) : \A j \in Writes(id) : j <= i

\* C9: every site map entry has a non-empty html path, and a non-empty markdown
\* path exactly when the conversion of the step that wrote the entry
\* succeeded; a page whose conversion failed is in the site map
C9_MarkdownIffConverted ==
    /\ \A id \in DOMAIN site_map.at :
           /\ site_map.at[id].html # << >>
           /\ Writes(id) # {}
           /\ site_map.at[id].markdown # << >> <=> log[LastWrite(id)].md
    /\ \A i \in 1..Len(log) :
           log[i].ok => get_normalized_path(log[i].path) \in DOMAIN site_map.at

\* C9 witness: a conversion failed, the page is in the site map, and the crawl
\* went on to fetch another page
C9_Witness ==
    \E i \in 1..Len(log) :
        /\ log[i].ok /\ ~log[i].md
        /\ i < Len(log)
        /\ site_map.at[get_normalized_path(log[i].path)].markdown = << >>

\* the paths a page of a fixed site links to
LinksTo(page) ==
    { Resolved[page.links[k]].path : k \in { n \in 1..Len(page.links) :
          ~Resolved[page.links[n]].err /\ Resolved[page.links[n]].path # << >> } }

\* the pages reachable from the pages of `from` by following links
RECURSIVE Reachable(_, _)
Reachable(pages, from) ==
    LET more == from \cup UNION { LinksTo(pages[p]) : p \in from \cap DOMAIN pages }
    IN  IF more = from THEN from ELSE Reachable(pages, more)

\* every page is linked, through other pages, from every page, and no page
\* links outside the site
StronglyConnected(pages) ==
    \A p \in DOMAIN pages : Reachable(pages, {p}) = DOMAIN pages

\* C5: the crawl of a fixed site leaves its loop, and if the site is a strongly
\* connected link graph and every download succeeded, it has returned with
\* to_visit empty after fetching each page of the site exactly once
C5_CrawlVisitsEveryPageAndHalts ==
    /\ <>(pc # "crawling")
    /\ []((/\ pc # "crawling"
           /\ ~site.live
           /\ StronglyConnected(site.pages)
           /\ (\A i \in 1..Len(log) : log[i].ok))
          => (/\ pc \in {"crawled", "saved"}
              /\ to_visit = << >>
              /\ Fetched = DOMAIN site.pages
              /\ Len(log) = Cardinality(DOMAIN site.pages)))

\* C5 witness: the crawl of a strongly connected site of three pages has ended,
\* every download having succeeded
C5_Witness ==
    /\ pc = "saved"
    /\ ~site.live
    /\ Cardinality(DOMAIN site.pages) = 3
    /\ StronglyConnected(site.pages)
    /\ \A i \in 1..Len(log) : log[i].ok

\* C10 as stated: whenever the lookup service has read the saved site map, the
\* map was consistent with the files on disk
C10_LookupReadsConsistentMap == reply.op # "none" => reply.consistent

\* C11 as stated: get_normalized_path applied to its own result returns it
\* unchanged, and "/" and "" both normalize to "index"
C11_NormalizeIdempotent ==
    applied.fn = "get_normalized_path" =>
        /\ applied.times >= 2 => applied.value = applied.arg
        /\ (applied.times = 1 /\ applied.arg \in {<< >>, <<"/">>}) => applied.value = <<"index">>

\* C18: clean_text applied to its own result returns it unchanged, and its
\* result holds no carriage return or newline, no two whitespace characters
\* in a row and no whitespace at either end
C18_CleanTextIdempotent ==
    (applied.fn = "clean_text" /\ applied.times >= 1) =>
        /\ applied.times >= 2 => applied.value = applied.arg
        /\ \A i \in 1..Len(applied.value) : applied.value[i] \notin {"\r", "\n"}
        /\ \A i \in 1..(Len(applied.value) - 1) :
               ~(applied.value[i] \in Whitespace /\ applied.value[i + 1] \in Whitespace)
        /\ applied.value # << >> =>
               /\ applied.value[1] \notin Whitespace
               /\ applied.value[Len(applied.value)] \notin Whitespace

\* C18 witness: clean_text has been applied to its own result, a text of two
\* words with a space between them
C18_Witness ==
    /\ applied.fn = "clean_text"
    /\ applied.times = 2
    /\ applied.value = <<"a", " ", "a">>

\* the loaded value is a site map as the crawler writes it: a dict whose
\* values are dicts of the five strings of a PageInfo
IsPageInfo(info) ==
    /\ info.type = "dict"
    /\ DOMAIN info.at = { PageInfoKeys[i] : i \in 1..Len(PageInfoKeys) }
    /\ \A k \in DOMAIN info.at : info.at[k].type = "str"

IsSiteMap(loaded) ==
    /\ loaded.raised = ""
    /\ loaded.value.type = "dict"
    /\ \A id \in DOMAIN loaded.value.at : IsPageInfo(loaded.value.at[id])

\* the markdown path the loaded site map records for a page
MarkdownPathOf(id) == load_site_map.value.at[id].at[<<"markdown">>].str

\* C12: over a site map as the crawler writes it, get_page_content raises its
\* error exactly when the identifier is not in the map, or the entry's
\* markdown path is empty, or the markdown file cannot be read; otherwise it
\* returns the text of the file, the empty text of an empty file included
C12_ContentOrNotFound ==
    (reply.op = "get_page_content" /\ IsSiteMap(load_site_map)) =>
        /\ reply.raised \in {"", "ValueError"}
        /\ reply.raised = "ValueError" <=>
               \/ reply.arg \notin DOMAIN load_site_map.value.at
               \/ MarkdownPathOf(reply.arg) = << >>
               \/ FileLoc(Drop(MarkdownPathOf(reply.arg), 2)) \notin DOMAIN files
        /\ reply.raised = "" =>
               reply.value = PyStr(files[FileLoc(Drop(MarkdownPathOf(reply.arg), 2))])

\* C12 witness: the content of a page whose markdown file is empty was asked
\* for, and the empty text was returned
C12_Witness ==
    /\ reply.op = "get_page_content"
    /\ saved.exists /\ IsSiteMap(load_site_map)
    /\ reply.raised = ""
    /\ reply.value = PyStr(<< >>)

\* two characters are the same letter, whatever their case
SameLetter(c, d) == c = d \/ {c, d} \in { {"A", "a"}, {"B", "b"} }

\* the query occurs in the string, the case of the letters ignored
OccursIn(query, str) ==
    \E i \in 0..(Len(str) - Len(query)) :
        \A j \in 1..Len(query) : SameLetter(query[j], str[i + j])

\* the name and the description the loaded site map records for a page
NameOf(id) == load_site_map.value.at[id].at[<<"name">>].str
DescriptionOf(id) == load_site_map.value.at[id].at[<<"description">>].str

\* the rows of the latest answer
Rows == reply.value.items

\* C13: over a site map as the crawler writes it, search_pages returns one
\* row for each page whose name or description holds the query, the case of
\* the letters ignored, and for no other page; the row's relevance is "high"
\* when the name holds the query and "medium" when only the description does
C13_SearchFindsExactlyTheMatches ==
    (reply.op = "search_pages" /\ IsSiteMap(load_site_map)) =>
        /\ reply.raised = ""
        /\ { Rows[i].page_id : i \in 1..Len(Rows) } =
               { id \in DOMAIN load_site_map.value.at :
                     OccursIn(reply.arg, NameOf(id)) \/ OccursIn(reply.arg, DescriptionOf(id)) }
        /\ \A i, j \in 1..Len(Rows) : i # j => Rows[i].page_id # Rows[j].page_id
        /\ \A i \in 1..Len(Rows) :
               /\ Rows[i].relevance \in {"high", "medium"}
               /\ Rows[i].relevance = "high" <=> OccursIn(reply.arg, NameOf(Rows[i].page_id))
               /\ Rows[i].title = PyStr(NameOf(Rows[i].page_id))
               /\ Rows[i].description = PyStr(DescriptionOf(Rows[i].page_id))

\* C13 witness: a search for "a" over three pages found "Ab" in a name and
\* "a" in the description of a page named "b", and left a page out
C13_Witness ==
    /\ reply.op = "search_pages" /\ reply.arg = <<"a">>
    /\ saved.exists /\ IsSiteMap(load_site_map)
    /\ Len(load_site_map.value.keys) = 3
    /\ Len(Rows) = 2
    /\ Rows[1].relevance = "high" /\ Rows[1].title = PyStr(<<"A", "b">>)
    /\ Rows[2].relevance = "medium" /\ Rows[2].title = PyStr(<<"b">>)

\* the place of a page in the loaded site map
RECURSIVE IndexOf(_, _)
IndexOf(keys, id) == IF keys = << >> \/ Head(keys) = id THEN 1 ELSE 1 + IndexOf(Tail(keys), id)
Place(id) == IndexOf(load_site_map.value.keys, id)

\* C14: in the answer of search_pages no "medium" row comes before a "high"
\* row, and rows of the same relevance are in the order of the site map
C14_HighBeforeMediumStable ==
    (reply.op = "search_pages" /\ reply.raised = "" /\ IsSiteMap(load_site_map)) =>
        \A i, j \in 1..Len(Rows) :
            i < j => /\ ~(Rows[i].relevance = "medium" /\ Rows[j].relevance = "high")
                     /\ Rows[i].relevance = Rows[j].relevance
                            => Place(Rows[i].page_id) < Place(Rows[j].page_id)

\* C14 witness: a "high" row was moved before the two "medium" rows of the
\* pages that precede its page in the site map
C14_Witness ==
    /\ reply.op = "search_pages" /\ reply.raised = ""
    /\ saved.exists /\ IsSiteMap(load_site_map)
    /\ Len(Rows) = 3
    /\ Rows[1].relevance = "high" /\ Place(Rows[1].page_id) = 3
    /\ Rows[2].relevance = "medium" /\ Place(Rows[2].page_id) = 1
    /\ Rows[3].relevance = "medium" /\ Place(Rows[3].page_id) = 2

\* the answer of an operation over a site map with no pages
EmptyAnswer(op) ==
    IF op = "get_page_content" THEN Raised("ValueError") ELSE Returned(PyList(<< >>))

\* site_map.json is missing, unreadable or holds no site map
MissingOrMalformed ==
    \/ ~saved.exists
    \/ ~saved.readable
    \/ ~json_load(saved.content).ok
    \/ ~IsSiteMap(Returned(json_load(saved.content).value))

\* C15 as stated: when site_map.json is missing or malformed, every lookup
\* operation answers as it does over a site map with no pages
C15_MalformedLoadsAsEmpty ==
    (reply.op # "none" /\ MissingOrMalformed) =>
        /\ reply.raised = EmptyAnswer(reply.op).raised
        /\ reply.value = EmptyAnswer(reply.op).value

(***************************************************************************)
(* C16: saving a well-formed site map with save_site_map and loading the   *)
(* file with load_site_map gives a mapping equal to the one saved: the     *)
(* same identifiers, each with the same five strings.                      *)
(***************************************************************************)
\* the Python value equal to a site map of the crawler
AsLoaded(dict) ==
    PyDict(dict.keys,
           [id \in DOMAIN dict.at |->
               PyDict(PageInfoKeys,
                      [k \in {PageInfoKeys[i] : i \in 1..Len(PageInfoKeys)} |->
                          PyStr(dict.at[id][k[1]])])])

\* C16: what load_site_map returns for the file save_site_map wrote is a
\* mapping equal to the site map saved
C16_LoadOfSaveIsTheMap ==
    reply.op = "load_site_map" =>
        /\ reply.raised = ""
        /\ reply.value = AsLoaded(site_map)

\* a saved and loaded site map of two entries whose strings need escaping
C16_Witness ==
    /\ reply.op = "load_site_map"
    /\ Len(site_map.keys) = 2
    /\ \E id \in DOMAIN site_map.at :
           /\ Quote \in {id[i] : i \in 1..Len(id)}
           /\ site_map.at[id].name = <<"\n", "\t", "\r">>
           /\ site_map.at[id].description = <<Backslash, "u", "00e9">>
    /\ reply.value = AsLoaded(site_map)

(***************************************************************************)
(* C17: the crawl starts from the root path and is first in, first out.    *)
(* FirstAppended lists the paths in the order in which they were first     *)
(* appended to to_visit: those fetched so far, in the order of their       *)
(* fetches, and then those still waiting, in the order of the queue.  A    *)
(* step takes the head of the queue, and if it fetches it, it fetches the  *)
(* first path of FirstAppended not yet fetched; the links of the page it   *)
(* fetched go to the tail of to_visit in the order of the page; and        *)
(* FirstAppended only grows at its end.  So a path first appended before   *)
(* another is fetched before it.                                           *)
(***************************************************************************)
RECURSIVE FirstOccurrences(_, _)
FirstOccurrences(paths, seen) ==
    IF paths = << >> THEN << >>
    ELSE IF Head(paths) \in seen THEN FirstOccurrences(Tail(paths), seen)
    ELSE <<Head(paths)>> \o FirstOccurrences(Tail(paths), seen \cup {Head(paths)})

FetchOrder(l) == [i \in 1..Len(l) |-> l[i].path]
FirstAppendedOf(l, q, vis) == FetchOrder(l) \o FirstOccurrences(q, vis)
FirstAppended == FirstAppendedOf(log, to_visit, visited)
IsPrefix(s, t) == Len(s) <= Len(t) /\ SubSeq(t, 1, Len(s)) = s
\* the hrefs of the fetched page that are neither visited nor waiting
NewOnPage(page) ==
    SelectSeq(page.links, LAMBDA h : h \notin visited' /\ h \notin InQueue(Tail(to_visit)))

\* C17: every step takes the head of to_visit, appends the new links of the
\* fetched page at the tail in page order, and extends the first-appended
\* order at its end only, fetching along it
C17_FirstInFirstOut ==
    [][/\ log = << >> => (to_visit = <<RootPath>> /\ FirstAppended = <<RootPath>>)
       /\ to_visit' # to_visit =>
              /\ IsPrefix(Tail(to_visit), to_visit')
              /\ IsPrefix(FirstAppended, FirstAppendedOf(log', to_visit', visited'))
       /\ FetchStep =>
              /\ LastFetch.path = Head(to_visit)
              /\ LastFetch.path = FirstAppended[Len(log) + 1]
       /\ (FetchStep /\ LastFetch.ok) =>
              to_visit' = Tail(to_visit) \o NewOnPage(site.pages[LastFetch.path])
       /\ (FetchStep /\ ~LastFetch.ok) => to_visit' = Tail(to_visit)]_vars

\* the root linked to "/about" and "/work", "/about" linked to "/about/", and
\* "/work", appended before "/about/", was fetched before it
C17_Witness ==
    /\ ~site.live
    /\ FetchOrder(log) = <<RootPath, <<"/", "about">>, <<"/", "work">>, <<"/", "about", "/">> >>
    /\ site.pages[RootPath].links = << <<"/", "about">>, <<"/", "work">> >>
    /\ site.pages[<<"/", "about">>].links = << <<"/", "about", "/">> >>

(***************************************************************************)
(* C19: "/about" and "/about/" have the same identifier, "about".  The     *)
(* site map has one entry for an identifier, and the entry's name,         *)
(* description and markdown path are those of the last path with that      *)
(* identifier whose fetch succeeded: a later successful fetch overwrites   *)
(* the entry, a later failed fetch leaves it.                              *)
(***************************************************************************)
\* the identifier, the title and the description of each page of the
\* four-page site
FourPages ==
    Put(Put(Put(Put(EmptyMap,
        RootPath, [id |-> <<"index">>, name |-> <<"Home">>, description |-> << >>]),
        <<"/", "about">>,
            [id |-> <<"about">>, name |-> <<"About", " ", "Me">>, description |-> << >>]),
        <<"/", "about", "/">>,
            [id |-> <<"about">>, name |-> <<"About">>, description |-> <<"Me">>]),
        <<"/", "work">>,
            [id |-> <<"work">>, name |-> <<"No", " ", "Title">>, description |-> <<"Work">>])

Successes(id) == { i \in 1..Len(log) : log[i].ok /\ FourPages[log[i].path].id = id }
LastSuccess(id) == CHOOSE i \in Successes(id) : \A j \in Successes(id) : j <= i

\* C19: one entry for an identifier, holding the name, description and
\* markdown path of the last successful fetch of a path with that identifier
C19_LastSuccessfulFetchWins ==
    /\ \A i, j \in 1..Len(site_map.keys) : i # j => site_map.keys[i] # site_map.keys[j]
    /\ InQueue(site_map.keys) = DOMAIN site_map.at
    /\ \A id \in DOMAIN site_map.at :
           /\ Successes(id) # {}
           /\ site_map.at[id].name = FourPages[log[LastSuccess(id)].path].name
           /\ site_map.at[id].description = FourPages[log[LastSuccess(id)].path].description
           /\ site_map.at[id].markdown =
                  (IF log[LastSuccess(id)].md
                   THEN <<".", "/", "markdown", "/">> \o id \o <<".md">> ELSE << >>)

\* "/about" was fetched and converted, then "/about/" was fetched and its
\* conversion failed, then "/work" failed: the one entry "about" is that of
\* "/about/"
C19_Witness ==
    /\ ~site.live
    /\ pc = "saved"
    /\ \E i, j, k \in 1..Len(log) :
           /\ i < j /\ j < k
           /\ log[i] = [path |-> <<"/", "about">>, ok |-> TRUE, md |-> TRUE]
           /\ log[j] = [path |-> <<"/", "about", "/">>, ok |-> TRUE, md |-> FALSE]
           /\ log[k].path = <<"/", "work">> /\ ~log[k].ok
    /\ <<"about">> \in DOMAIN site_map.at
    /\ site_map.at[<<"about">>].name = <<"About">>
    /\ site_map.at[<<"about">>].markdown = << >>
    /\ Len(SelectSeq(site_map.keys, LAMBDA id : id = <<"about">>)) = 1

(***************************************************************************)
(* C20: in every state of the crawl, every key of the site map is the      *)
(* identifier of a visited path whose fetch succeeded, and the entry's     *)
(* base field is its key; a path whose fetches all failed, or that is      *)
(* still waiting in to_visit, has an entry only if another path with its   *)
(* identifier was fetched with success; and no step of the crawl removes   *)
(* an entry.                                                               *)
(***************************************************************************)
\* the identifier of each path the live site's links lead to: the path
\* without its trailing and leading slashes, "index" for the root
Identifiers ==
    Put(Put(Put(Put(Put(EmptyMap,
        RootPath, <<"index">>),
        <<"/", "about">>, <<"about">>),
        <<"/", "about", "/">>, <<"about">>),
        <<"/", "x">>, <<"x">>),
        <<"/", "..", "/", "..", "/", "x">>, <<"..", "/", "..", "/", "x">>)

SucceededFor(l, vis, id) ==
    \E i \in 1..Len(l) : l[i].ok /\ l[i].path \in vis /\ Identifiers[l[i].path] = id

EntriesFromSuccesses(map, l, vis, q) ==
    /\ \A id \in DOMAIN map.at : map.at[id].base = id /\ SucceededFor(l, vis, id)
    /\ \A i \in 1..Len(l) :
           (~l[i].ok /\ ~SucceededFor(l, vis, Identifiers[l[i].path]))
               => Identifiers[l[i].path] \notin DOMAIN map.at
    /\ \A k \in 1..Len(q) :
           (q[k] \notin vis /\ ~SucceededFor(l, vis, Identifiers[q[k]]))
               => Identifiers[q[k]] \notin DOMAIN map.at

\* C20: before and after every step of the crawl the entries of the site map
\* come from successful fetches of visited paths, under their identifiers,
\* and the step removes no entry
C20_EntriesOnlyFromSuccessfulFetches ==
    [][/\ EntriesFromSuccesses(site_map, log, visited, to_visit)
       /\ EntriesFromSuccesses(site_map', log', visited', to_visit')
       /\ DOMAIN site_map.at \subseteq DOMAIN site_map'.at
       /\ IsPrefix(site_map.keys, site_map'.keys)]_vars

\* the root page is in the site map, the fetch of "/x" failed and "/about" is
\* waiting: neither has an entry
C20_Witness ==
    /\ site.live
    /\ pc = "crawling"
    /\ DOMAIN site_map.at = {<<"index">>}
    /\ \E i \in 1..Len(log) : log[i].path = <<"/", "x">> /\ ~log[i].ok
    /\ to_visit # << >>
    /\ Head(to_visit) = <<"/", "about">>
    /\ <<"/", "about">> \notin visited

====
